---- MODULE Spec2Model ----
(***************************************************************************)
(* The justact_pdx session: a line-oriented shell around an append-only    *)
(* ledger (Config) of statements, agreements and enacted actions, plus a   *)
(* clock.  One step of the model is one iteration of main's loop: read a   *)
(* line, parse it (Cmd::parse), run the command's handler.                 *)
(*                                                                         *)
(* An input line is modelled after splitting at whitespace: a sequence of  *)
(* pieces (strings).  Numbers on the wire are decimal tokens, read as      *)
(* str::parse reads them (ParseNum).  The inspect command is several       *)
(* steps: run_inspection spawns the inspector, writes to its pipe call by  *)
(* call, closes the pipe and waits, and the inspector runs in between.     *)
(***************************************************************************)
EXTENDS Integers, Sequences, FiniteSets

VARIABLES
    current,     \* Config.current
    statements,  \* Config.statements
    agreements,  \* Config.agreements
    enacted,     \* Config.enacted
    pc,          \* where main is: "running" (at read_line), "writing" and "waiting"
                 \* (in run_inspection), "quit" (loop left), "aborted" (panic)
    lastCmd,     \* the command the last loop iteration parsed
    lastOut,     \* what the last loop iteration printed
    declares,    \* history: how many say commands were dispatched to update
    probe,       \* the outcome of one enact run on a long ledger (SpecOverflow only)
    insp,        \* run_inspection under way: the pipe and the child
    stdin        \* what the session's standard input holds

vars ==
    <<current, statements, agreements, enacted, pc, lastCmd, lastOut, declares, probe, insp,
      stdin>>

ledger == <<current, statements, agreements, enacted>>

\* what a session's steps leave alone
aux == <<probe, insp>>

NoProbe == [n |-> -1]

\* no inspector has been launched
NoInspector ==
    [toWrite |-> <<>>, pipe |-> <<>>, received |-> 0, stdinOpen |-> FALSE,
     readOpen |-> FALSE, child |-> "none", sawEof |-> FALSE]

\* a standard input on which any line of the vocabulary may come next
AnyLine == [any |-> TRUE, rest |-> <<>>]

----------------------------------------------------------------------------
(* Bounds and input vocabulary *)

\* total number of ledger entries (statements + agreements + actions) a run may create
MaxLedger == 4

Actors == {"carol"}
\* what alice says, and what bob says: a payload of more than MaxBytes characters
ShortPayload == <<"hello">>
LongPayload ==
    <<"hello", "world", "this", "is", "a", "long", "payload", "of", "more", "than",
      "forty", "characters">>
\* the decimal digits; the digit at position k denotes k-1
Numerals == <<"0", "1", "2", "3", "4", "5", "6", "7", "8", "9">>
\* numerals for 0, 1 and 2, one of them with a leading zero
IndexTokens == {"0", "01", "2"}
\* numerals for 0 and 10, one of them with a sign
TimeTokens == {"+0", "10"}

\* u64::MAX (and usize::MAX on a 64-bit target), in digits
U64MaxDigits == "18446744073709551615"

\* const MAX_BYTES in trucated
MaxBytes == 40

\* 'a' as u32
LabelBase == 97
\* char::from_u32 is None on the surrogate range and above char::MAX
SurrogateLo == 55296
SurrogateHi == 57343
CharMax == 1114111

----------------------------------------------------------------------------
(* Cmd::parse *)

IsDigit(ch) == \E k \in 1..Len(Numerals) : Numerals[k] = ch

DigitOf(ch) == (CHOOSE k \in 1..Len(Numerals) : Numerals[k] = ch) - 1

RECURSIVE AllDigits(_)
AllDigits(w) == Len(w) = 0 \/ (IsDigit(Head(w)) /\ AllDigits(Tail(w)))

RECURSIVE StripZeros(_)
StripZeros(w) == IF Len(w) > 1 /\ Head(w) = "0" THEN StripZeros(Tail(w)) ELSE w

\* a <= b for two digit strings of the same length
RECURSIVE LeqDigits(_, _)
LeqDigits(a, b) ==
    IF Len(a) = 0 THEN TRUE
    ELSE IF DigitOf(Head(a)) # DigitOf(Head(b)) THEN DigitOf(Head(a)) < DigitOf(Head(b))
    ELSE LeqDigits(Tail(a), Tail(b))

\* the number fits the integer type: no overflow in the parse
FitsU64(w) ==
    \/ Len(w) < Len(U64MaxDigits)
    \/ Len(w) = Len(U64MaxDigits) /\ LeqDigits(w, U64MaxDigits)

RECURSIVE Horner(_, _)
Horner(acc, w) == IF Len(w) = 0 THEN acc ELSE Horner(10 * acc + DigitOf(Head(w)), Tail(w))

\* str::parse::<u64/usize>().ok(): the number, or -1 for None.  One leading
\* "+" is accepted, "-" is not; at least one digit has to follow, and only
\* digits; leading zeros are allowed; a number above the type's maximum is
\* None.  (The model checker's own integers end at 2^31 - 1.)
ParseNum(w) ==
    LET body == IF Len(w) > 0 /\ Head(w) = "+" THEN Tail(w) ELSE w IN
    IF Len(body) = 0 \/ ~AllDigits(body) \/ ~FitsU64(StripZeros(body))
    THEN -1
    ELSE Horner(0, StripZeros(body))

NoCmd == [kind |-> "None", who |-> "", idx |-> -1, at |-> -1, just |-> {}, payload |-> <<>>]

\* the pieces of a line from position k on: what remains of the line
Rest(line, k) == SubSeq(line, k, Len(line))

ParseSay(line) ==
    IF Len(line) < 3 THEN NoCmd
    ELSE [NoCmd EXCEPT !.kind = "Say", !.who = line[2], !.payload = Rest(line, 3)]

\* splitn(3): the third piece is the whole rest of the line, so a fourth
\* token makes the time unparsable
ParseAgree(line) ==
    IF Len(line) # 3 \/ ParseNum(line[2]) < 0 \/ ParseNum(line[3]) < 0 THEN NoCmd
    ELSE [NoCmd EXCEPT !.kind = "Agree", !.idx = ParseNum(line[2]), !.at = ParseNum(line[3])]

\* the rest is split again: first the basis, then every further piece is
\* collected into the HashSet (duplicates merge); one bad piece fails the parse
ParseEnact(line) ==
    IF Len(line) < 3 \/ ParseNum(line[3]) < 0
       \/ \E k \in 4..Len(line) : ParseNum(line[k]) < 0
    THEN NoCmd
    ELSE [NoCmd EXCEPT !.kind = "Enact", !.who = line[2], !.idx = ParseNum(line[3]),
                       !.just = {ParseNum(line[k]) : k \in 4..Len(line)}]

\* after the time only empty pieces may follow
ParseNow(line) ==
    IF Len(line) < 2 \/ ParseNum(line[2]) < 0
       \/ ~(Len(line) = 2 \/ (Len(line) = 3 /\ line[3] = ""))
    THEN NoCmd
    ELSE [NoCmd EXCEPT !.kind = "Now", !.at = ParseNum(line[2])]

Parse(line) ==
    LET keyword == line[1] IN
    CASE keyword = "say" -> ParseSay(line)
      [] keyword = "agree" -> ParseAgree(line)
      [] keyword = "enact" -> ParseEnact(line)
      [] keyword = "now" -> ParseNow(line)
      [] keyword = "inspect" -> [NoCmd EXCEPT !.kind = "Inspect"]
      [] keyword = "quit" -> [NoCmd EXCEPT !.kind = "Quit"]
      [] keyword = "dump" -> [NoCmd EXCEPT !.kind = "Dump"]
      [] keyword = "show" -> [NoCmd EXCEPT !.kind = "Show"]
      [] OTHER -> NoCmd

----------------------------------------------------------------------------
(* The lines a session may read (after trim_end) *)

\* the tokens of a set of indices, smallest first
RECURSIVE TokensOf(_)
TokensOf(S) ==
    IF S = {} THEN <<>>
    ELSE LET m == CHOOSE x \in S : \A y \in S : x <= y
         IN <<Numerals[m + 1]>> \o TokensOf(S \ {m})

Indices == {ParseNum(w) : w \in IndexTokens}

SayLines == {<<"say", "alice">> \o ShortPayload, <<"say", "bob">> \o LongPayload}
AgreeLines == {<<"agree", i, t>> : i \in IndexTokens, t \in TimeTokens}
EnactLines ==
    {<<"enact", a, b>> \o TokensOf(J) : a \in Actors, b \in IndexTokens, J \in SUBSET Indices}
NowLines == {<<"now", t>> : t \in TimeTokens}
PlainLines == {<<"inspect">>, <<"quit">>, <<"dump">>, <<"show">>}
BadLines ==
    { <<"">>, <<"help">>, <<"say", "alice">>, <<"agree", "0">>, <<"agree", "x", "0">>,
      <<"agree", "0", "0", "1">>, <<"agree", "-1", "0">>, <<"agree", "0", "+">>,
      <<"agree", "0", "18446744073709551616">>,
      <<"enact", "carol">>, <<"enact", "carol", "x">>, <<"enact", "carol", "0", "1x">>,
      <<"enact", "carol", "0", "", "0">>, <<"now">>, <<"now", "0", "1">>, <<"now", "", "0">> }

Lines == SayLines \cup AgreeLines \cup EnactLines \cup NowLines \cup PlainLines \cup BadLines

\* what Cmd::parse makes of the lines
Cmds == {Parse(line) : line \in Lines}

----------------------------------------------------------------------------
(* Config *)

Cfg == [current |-> current, statements |-> statements,
        agreements |-> agreements, enacted |-> enacted]

Size(c) == Len(c.statements) + Len(c.agreements) + Len(c.enacted)

Diag(text, arg) == [text |-> text, arg |-> arg]

\* (mutant) the id counts from one
NewMessageOneBased(c, sayer, payload) ==
    [id |-> <<sayer, Len(c.statements) + 1>>, payload |-> payload]

\* Message { id: (sayer, statements.len()), payload }
NewMessage(c, sayer, payload) ==
    [id |-> <<sayer, Len(c.statements)>>, payload |-> payload]

\* (mutant) the new statement is put in front of the store
UpdateSayFront(c, sayer, payload) ==
    [c EXCEPT !.statements = <<NewMessage(c, sayer, payload)>> \o @]

\* UpdateCmd::Say
UpdateSay(c, sayer, payload) ==
    [c EXCEPT !.statements = Append(@, NewMessage(c, sayer, payload))]

\* statements.get_mut(on_idx) is Some
AgreeKnown(c, on_idx) == on_idx < Len(c.statements)

\* (mutant) the agreement is stamped with the clock instead of the given time
NewAgreementAtClock(c, on_idx, at) ==
    [at |-> c.current, message |-> c.statements[on_idx + 1]]

\* Agreement { at, message: s.clone() }
NewAgreement(c, on_idx, at) == [at |-> at, message |-> c.statements[on_idx + 1]]

\* (mutant) an index past the end is clamped to the last statement
UpdateAgreeClamped(c, on_idx, at) ==
    IF c.statements = <<>> THEN c
    ELSE LET i == IF on_idx < Len(c.statements) THEN on_idx ELSE Len(c.statements) - 1
         IN [c EXCEPT !.agreements = Append(@, NewAgreement(c, i, at))]

\* UpdateCmd::Agree
UpdateAgree(c, on_idx, at) ==
    IF AgreeKnown(c, on_idx)
    THEN [c EXCEPT !.agreements = Append(@, NewAgreement(c, on_idx, at))]
    ELSE c

OutAgree(c, on_idx, at) ==
    IF AgreeKnown(c, on_idx) THEN <<>>
    ELSE <<Diag("Limitation: cannot agree on unsaid messages!", -1)>>

\* basis >= self.agreements.len()
BasisUnsaid(c, basis) == basis >= Len(c.agreements)

\* the members justification.iter().find(|id| id >= statements.len()) can
\* return: the HashSet iterates in an order that its per-instance random hash
\* keys decide, so find returns any one of the members that match
Unsaid(c, justification) == {id \in justification : id >= Len(c.statements)}

\* char::from_u32('a' as u32 + enacted.len() as u32): the code point, or -1 for None
FromU32(n) ==
    IF n > CharMax \/ (n >= SurrogateLo /\ n <= SurrogateHi) THEN -1 ELSE n

\* (mutant) the label is counted from the statement store
LabelFromStatements(c) == FromU32(LabelBase + Len(c.statements))

\* (enacted.len() as u32 is the length itself: a Vec of 2^32 actions is out of reach)
Label(c) == FromU32(LabelBase + Len(c.enacted))

\* (mutant) the basis is stamped with the clock instead of being the agreement
NewActionStamped(c, actor, basis, justification) ==
    [id |-> <<actor, Label(c)>>,
     basis |-> [c.agreements[basis + 1] EXCEPT !.at = c.current],
     justification |-> {c.statements[idx + 1] : idx \in justification}]

\* (mutant) the basis' own message is added to the justification
NewActionWithBasisMessage(c, actor, basis, justification) ==
    [id |-> <<actor, Label(c)>>,
     basis |-> c.agreements[basis + 1],
     justification |-> {c.statements[idx + 1] : idx \in justification}
                          \cup {c.agreements[basis + 1].message}]

\* (mutant) the actor is taken from the basis' message
NewActionBySayer(c, actor, basis, justification) ==
    [id |-> <<c.agreements[basis + 1].message.id[1], Label(c)>>,
     basis |-> c.agreements[basis + 1],
     justification |-> {c.statements[idx + 1] : idx \in justification}]

\* Action { id: (actor, label), basis: agreements[basis].clone(),
\*          justification: justification.iter().map(|idx| statements[idx].clone()).collect() }
NewAction(c, actor, basis, justification) ==
    [id |-> <<actor, Label(c)>>,
     basis |-> c.agreements[basis + 1],
     justification |-> {c.statements[idx + 1] : idx \in justification}]

\* (mutant) the justification is checked before the basis
EnactVerdictJustificationFirst(c, basis, justification) ==
    IF Unsaid(c, justification) # {} THEN "JustificationUnknown"
    ELSE IF BasisUnsaid(c, basis) THEN "BasisUnknown"
    ELSE IF Label(c) = -1 THEN "Panic"
    ELSE "Push"

\* (mutant) the label is allocated before the indices are checked
EnactVerdictLabelFirst(c, basis, justification) ==
    IF Label(c) = -1 THEN "Panic"
    ELSE IF BasisUnsaid(c, basis) THEN "BasisUnknown"
    ELSE IF Unsaid(c, justification) # {} THEN "JustificationUnknown"
    ELSE "Push"

\* which branch of UpdateCmd::Enact runs
EnactVerdict(c, basis, justification) ==
    IF BasisUnsaid(c, basis) THEN "BasisUnknown"
    ELSE IF Unsaid(c, justification) # {} THEN "JustificationUnknown"
    ELSE IF Label(c) = -1 THEN "Panic"
    ELSE "Push"

\* UpdateCmd::Enact
UpdateEnact(c, actor, basis, justification) ==
    IF EnactVerdict(c, basis, justification) = "Push"
    THEN [c EXCEPT !.enacted = Append(@, NewAction(c, actor, basis, justification))]
    ELSE c

\* (mutant) the justification diagnostic prints the basis
OutEnactPrintsBasis(c, basis, justification, found) ==
    CASE EnactVerdict(c, basis, justification) = "BasisUnknown" ->
            <<Diag("Cannot be based using unsaid message", basis)>>
      [] EnactVerdict(c, basis, justification) = "JustificationUnknown" ->
            <<Diag("Cannot justify using unsaid message", basis)>>
      [] OTHER -> <<>>

\* found: the member find returned (-1 when it returned None)
OutEnact(c, basis, justification, found) ==
    CASE EnactVerdict(c, basis, justification) = "BasisUnknown" ->
            <<Diag("Cannot be based using unsaid message", basis)>>
      [] EnactVerdict(c, basis, justification) = "JustificationUnknown" ->
            <<Diag("Cannot justify using unsaid message", found)>>
      [] OTHER -> <<>>

\* (mutant) the clock only moves forward
UpdateNowMonotonic(c, now) ==
    [c EXCEPT !.current = IF now > c.current THEN now ELSE c.current]

\* UpdateCmd::Now
UpdateNow(c, now) == [c EXCEPT !.current = now]

\* (mutant) the agreements are written before the statements
WriteInspectionAgreementsFirst(c) ==
    <<[ev |-> "AdvanceTime", timestamp |-> c.current]>>
    \o [i \in 1..Len(c.agreements) |-> [ev |-> "AddAgreement", agree |-> c.agreements[i]]]
    \o [i \in 1..Len(c.statements) |->
          [ev |-> "StateMessage", who |-> c.statements[i].id[1], to |-> "All",
           msg |-> c.statements[i]]]
    \o [i \in 1..Len(c.enacted) |->
          [ev |-> "EnactAction", who |-> c.enacted[i].id[1], to |-> "All",
           action |-> c.enacted[i]]]

\* write_inspection: the events in the order they are written
WriteInspection(c) ==
    <<[ev |-> "AdvanceTime", timestamp |-> c.current]>>
    \o [i \in 1..Len(c.statements) |->
          [ev |-> "StateMessage", who |-> c.statements[i].id[1], to |-> "All",
           msg |-> c.statements[i]]]
    \o [i \in 1..Len(c.agreements) |-> [ev |-> "AddAgreement", agree |-> c.agreements[i]]]
    \o [i \in 1..Len(c.enacted) |->
          [ev |-> "EnactAction", who |-> c.enacted[i].id[1], to |-> "All",
           action |-> c.enacted[i]]]

\* the number of characters of a payload: its pieces and the blanks between them
RECURSIVE Chars(_)
Chars(payload) ==
    IF Len(payload) = 0 THEN 0
    ELSE Len(Head(payload)) + (IF Len(payload) > 1 THEN 1 + Chars(Tail(payload)) ELSE 0)

\* the first n characters of a payload of more than n characters
RECURSIVE Cut(_, _)
Cut(payload, n) ==
    IF Len(Head(payload)) >= n THEN <<SubSeq(Head(payload), 1, n)>>
    ELSE <<Head(payload)>> \o Cut(Tail(payload), n - Len(Head(payload)) - 1)

\* trucated: the payload and "", or its first MAX_BYTES characters and "..."
Trucated(payload) ==
    IF Chars(payload) > MaxBytes THEN <<Cut(payload, MaxBytes), "...">>
    ELSE <<payload, "">>

\* show: the time line, then one table per non-empty log (a header and one
\* row per entry; the row's columns are kept as a tuple)
ShowLines(c) ==
    <<Diag("current time:", c.current)>>
    \o (IF c.statements = <<>> THEN <<>>
        ELSE <<Diag("STATEMENTS", -1)>>
             \o [i \in 1..Len(c.statements) |->
                   [row |-> <<i - 1, c.statements[i].id[1],
                              Trucated(c.statements[i].payload)[1],
                              Trucated(c.statements[i].payload)[2]>>]])
    \o (IF c.agreements = <<>> THEN <<>>
        ELSE <<Diag("AGREEMENTS", -1)>>
             \o [i \in 1..Len(c.agreements) |->
                   [row |-> <<i - 1, c.agreements[i].message.id[2], c.agreements[i].at>>]])
    \o (IF c.enacted = <<>> THEN <<>>
        ELSE <<Diag("ENACTED ACTIONS", -1)>>
             \o [i \in 1..Len(c.enacted) |->
                   [row |-> <<i - 1, c.enacted[i].id[1], c.enacted[i].basis.at,
                              {s.id[2] : s \in c.enacted[i].justification}>>]])

\* the lines printed when Cmd::parse returns None
HelpText ==
    <<Diag("Commands:", -1),
      Diag("- say <name> <payload>", -1),
      Diag("- agree <stmt.id> <time>", -1),
      Diag("- enact <name> <ag.id> <stmt.id>*", -1),
      Diag("- now <time>", -1),
      Diag("- inspect", -1),
      Diag("- show", -1),
      Diag("- dump", -1),
      Diag("- quit", -1)>>

\* lines written to stdout one by one (println!, or writeln! on the locked
\* stdout): all of them are written, or the write of one of them fails after
\* the lines before it have been written
PrintOutcomes(out) ==
    {[ok |-> TRUE, printed |-> out]}
    \cup {[ok |-> FALSE, printed |-> SubSeq(out, 1, k - 1)] : k \in 1..Len(out)}

----------------------------------------------------------------------------
(* main *)

Init ==
    /\ current = 0
    /\ statements = <<>>
    /\ agreements = <<>>
    /\ enacted = <<>>
    /\ pc = "running"
    /\ lastCmd = NoCmd
    /\ lastOut = <<>>
    /\ declares = 0
    /\ probe = NoProbe
    /\ insp = NoInspector
    /\ stdin = AnyLine

\* the commands read_line and Cmd::parse can deliver next
Offered ==
    IF stdin.any THEN Cmds
    ELSE IF Len(stdin.rest) = 0 THEN {} ELSE {Head(stdin.rest)}

\* the standard input after a line is read
Consumed == IF stdin.any THEN stdin ELSE [stdin EXCEPT !.rest = Tail(@)]

SetCfg(c) ==
    /\ current' = c.current
    /\ statements' = c.statements
    /\ agreements' = c.agreements
    /\ enacted' = c.enacted

\* the model stops creating entries at MaxLedger
Room == Size(Cfg) < MaxLedger

Say ==
    \E cmd \in Offered :
        /\ pc = "running"
        /\ cmd.kind = "Say"
        /\ Room
        /\ SetCfg(UpdateSay(Cfg, cmd.who, cmd.payload))
        /\ lastCmd' = cmd
        /\ lastOut' = <<>>
        /\ declares' = declares + 1
        /\ UNCHANGED pc
        /\ stdin' = Consumed
        /\ UNCHANGED aux

Agree ==
    \E cmd \in Offered :
        /\ pc = "running"
        /\ cmd.kind = "Agree"
        /\ AgreeKnown(Cfg, cmd.idx) => Room
        /\ SetCfg(UpdateAgree(Cfg, cmd.idx, cmd.at))
        /\ lastCmd' = cmd
        /\ \E p \in PrintOutcomes(OutAgree(Cfg, cmd.idx, cmd.at)) :
              /\ lastOut' = p.printed
              /\ pc' = IF p.ok THEN pc ELSE "aborted"
        /\ UNCHANGED declares
        /\ stdin' = Consumed
        /\ UNCHANGED aux

Enact ==
    \E cmd \in Offered :
        LET verdict == EnactVerdict(Cfg, cmd.idx, cmd.just) IN
        /\ pc = "running"
        /\ cmd.kind = "Enact"
        /\ verdict = "Push" => Room
        /\ \E found \in (IF verdict = "JustificationUnknown"
                         THEN Unsaid(Cfg, cmd.just) ELSE {-1}) :
              \E p \in PrintOutcomes(OutEnact(Cfg, cmd.idx, cmd.just, found)) :
                 /\ lastOut' = p.printed
                 /\ pc' = IF verdict = "Panic" \/ ~p.ok THEN "aborted" ELSE pc
        /\ SetCfg(UpdateEnact(Cfg, cmd.who, cmd.idx, cmd.just))
        /\ lastCmd' = cmd
        /\ UNCHANGED declares
        /\ stdin' = Consumed
        /\ UNCHANGED aux

Now ==
    \E cmd \in Offered :
        /\ pc = "running"
        /\ cmd.kind = "Now"
        /\ SetCfg(UpdateNow(Cfg, cmd.at))
        /\ lastCmd' = cmd
        /\ lastOut' = <<>>
        /\ UNCHANGED <<pc, declares>>
        /\ stdin' = Consumed
        /\ UNCHANGED aux

\* (mutant) the dump drains the logs it writes
DumpDrains ==
    \E cmd \in Offered :
        /\ pc = "running"
        /\ cmd.kind = "Dump"
        /\ lastCmd' = cmd
        /\ lastOut' = WriteInspection(Cfg)
        /\ statements' = <<>>
        /\ agreements' = <<>>
        /\ enacted' = <<>>
        /\ UNCHANGED <<current, pc, declares>>
        /\ stdin' = Consumed
        /\ UNCHANGED aux

\* dump: write_inspection to stdout; a failed write panics in expect("dump bad")
Dump ==
    \E cmd \in Offered :
        /\ pc = "running"
        /\ cmd.kind = "Dump"
        /\ lastCmd' = cmd
        /\ \E p \in PrintOutcomes(WriteInspection(Cfg)) :
              /\ lastOut' = p.printed
              /\ pc' = IF p.ok THEN pc ELSE "aborted"
        /\ UNCHANGED <<ledger, declares>>
        /\ stdin' = Consumed
        /\ UNCHANGED aux

Show ==
    \E cmd \in Offered :
        /\ pc = "running"
        /\ cmd.kind = "Show"
        /\ lastCmd' = cmd
        /\ \E p \in PrintOutcomes(ShowLines(Cfg)) :
              /\ lastOut' = p.printed
              /\ pc' = IF p.ok THEN pc ELSE "aborted"
        /\ UNCHANGED <<ledger, declares>>
        /\ stdin' = Consumed
        /\ UNCHANGED aux

Quit ==
    \E cmd \in Offered :
        /\ pc = "running"
        /\ cmd.kind = "Quit"
        /\ lastCmd' = cmd
        /\ lastOut' = <<>>
        /\ pc' = "quit"
        /\ UNCHANGED <<ledger, declares>>
        /\ stdin' = Consumed
        /\ UNCHANGED aux

\* Cmd::parse returned None: the help text is printed
Malformed ==
    \E cmd \in Offered :
        /\ pc = "running"
        /\ cmd.kind = "None"
        /\ lastCmd' = cmd
        /\ \E p \in PrintOutcomes(HelpText) :
              /\ lastOut' = p.printed
              /\ pc' = IF p.ok THEN pc ELSE "aborted"
        /\ UNCHANGED <<ledger, declares>>
        /\ stdin' = Consumed
        /\ UNCHANGED aux

\* read_line returned Ok(0): end of input
Eof ==
    /\ pc = "running"
    /\ stdin.any \/ Len(stdin.rest) = 0
    /\ pc' = "quit"
    /\ lastCmd' = [NoCmd EXCEPT !.kind = "Eof"]
    /\ lastOut' = <<>>
    /\ UNCHANGED <<ledger, declares>>
    /\ UNCHANGED <<probe, insp, stdin>>

\* read_line returned Err: expect("buffer bad") panics
ReadError ==
    /\ pc = "running"
    /\ pc' = "aborted"
    /\ lastCmd' = [NoCmd EXCEPT !.kind = "ReadError"]
    /\ lastOut' = <<>>
    /\ UNCHANGED <<ledger, declares>>
    /\ UNCHANGED <<probe, insp, stdin>>

----------------------------------------------------------------------------
(* UpdateCmd::Enact on the ledger of a long session *)

EmptyCfg == [current |-> 0, statements |-> <<>>, agreements |-> <<>>, enacted |-> <<>>]

\* the ledger after "say alice hello", "say bob hello", "agree 1 1", "agree 0 0"
BaseCfg ==
    UpdateAgree(
        UpdateAgree(
            UpdateSay(UpdateSay(EmptyCfg, "alice", <<"hello">>), "bob", <<"hello">>),
            1, 1),
        0, 0)

\* ... and after n times "enact carol 0": the k-th of them pushed the label 'a' + k
LongCfg(n) ==
    [BaseCfg EXCEPT !.enacted =
        [k \in 1..n |-> [id |-> <<"carol", LabelBase + (k - 1)>>,
                         basis |-> BaseCfg.agreements[1],
                         justification |-> {}]]]

\* the number of actions at which 'a' + len first leaves the characters
FirstBadLen == SurrogateLo - LabelBase

\* log lengths an enact is run on: short logs and the last ones a session reaches
ProbeLens == {0, 1, 2, FirstBadLen - 2, FirstBadLen - 1, FirstBadLen}

InitOverflow == Init

\* one enact command handled on LongCfg(n); of the resulting Config the probe
\* keeps the small fields, the length of the log, whether its first n entries
\* are the old ones, and the entry pushed (if any)
ProbeEnact ==
    \E n \in ProbeLens, cmd \in Cmds :
        LET c == LongCfg(n)
            verdict == EnactVerdict(c, cmd.idx, cmd.just)
            r == UpdateEnact(c, cmd.who, cmd.idx, cmd.just)
        IN
        /\ probe = NoProbe
        /\ cmd.kind = "Enact"
        /\ \E found \in (IF verdict = "JustificationUnknown"
                         THEN Unsaid(c, cmd.just) ELSE {-1}) :
           \E p \in PrintOutcomes(OutEnact(c, cmd.idx, cmd.just, found)) :
              probe' = [n |-> n,
                        cmd |-> cmd,
                        out |-> p.printed,
                        printed |-> p.ok,
                        aborted |-> verdict = "Panic" \/ ~p.ok,
                        current |-> r.current,
                        statements |-> r.statements,
                        agreements |-> r.agreements,
                        len |-> Len(r.enacted),
                        kept |-> SubSeq(r.enacted, 1, n) = c.enacted,
                        pushed |-> SubSeq(r.enacted, n + 1, Len(r.enacted))]
        /\ UNCHANGED <<ledger, pc, lastCmd, lastOut, declares, insp, stdin>>

NextOverflow == ProbeEnact

SpecOverflow == InitOverflow /\ [][NextOverflow]_vars

----------------------------------------------------------------------------
(* The bytes write_inspection writes *)

\* the number of decimal digits of n
RECURSIVE Digits(_)
Digits(n) == IF n < 10 THEN 1 ELSE 1 + Digits(n \div 10)

\* the number of bytes of a character in UTF-8
Utf8Len(ch) ==
    IF ch < 128 THEN 1 ELSE IF ch < 2048 THEN 2 ELSE IF ch < 65536 THEN 3 ELSE 4

\* {"id":["alice",0],"payload":"hello"}: 25 bytes around the name, the index
\* and the payload (names and payloads of the vocabulary are ASCII and hold
\* nothing that JSON escapes)
MessageLen(m) == 25 + Len(m.id[1]) + Digits(m.id[2]) + Chars(m.payload)

\* {"message":M,"at":1}
AgreementLen(a) == 18 + MessageLen(a.message) + Digits(a.at)

\* the messages of a justification, with the commas between them
RECURSIVE MessagesLen(_)
MessagesLen(J) ==
    IF J = {} THEN 0
    ELSE LET m == CHOOSE x \in J : TRUE
         IN MessageLen(m) + (IF J = {m} THEN 0 ELSE 1 + MessagesLen(J \ {m}))

\* {"id":["carol","a"],"basis":A,"justification":[M,M]}
ActionLen(e) ==
    42 + Len(e.id[1]) + Utf8Len(e.id[2]) + AgreementLen(e.basis)
       + MessagesLen(e.justification)

\* the length of serde_json::to_string(&Event::Control(c)):
\*   {"Control":{"AdvanceTime":{"timestamp":0}}}
\*   {"Control":{"StateMessage":{"who":"alice","to":"All","msg":M}}}
\*   {"Control":{"AddAgreement":{"agree":A}}}
\*   {"Control":{"EnactAction":{"who":"carol","to":"All","action":E}}}
TextLen(event) ==
    CASE event.ev = "AdvanceTime" -> 42 + Digits(event.timestamp)
      [] event.ev = "StateMessage" -> 57 + Len(event.who) + MessageLen(event.msg)
      [] event.ev = "AddAgreement" -> 39 + AgreementLen(event.agree)
      [] event.ev = "EnactAction" -> 59 + Len(event.who) + ActionLen(event.action)

\* writeln!(w, "{}", text) on the unbuffered ChildStdin: two write_all calls
\* per event, its text and then the newline; each with the bytes it is called
\* with and the bytes of them that are not in the pipe yet
WriteCalls(c) ==
    LET events == WriteInspection(c) IN
    [k \in 1..(2 * Len(events)) |->
        IF k % 2 = 1
        THEN [event |-> (k + 1) \div 2, part |-> "text",
              bytes |-> TextLen(events[(k + 1) \div 2]),
              left |-> TextLen(events[(k + 1) \div 2])]
        ELSE [event |-> k \div 2, part |-> "newline", bytes |-> 1, left |-> 1]]

\* the bytes a sequence of write calls has still to write
RECURSIVE Bytes(_)
Bytes(calls) == IF Len(calls) = 0 THEN 0 ELSE Head(calls).left + Bytes(Tail(calls))

\* the length of the stream write_inspection writes
StreamBytes(c) == Bytes(WriteCalls(c))

----------------------------------------------------------------------------
(* The pipe between the session and the inspector *)

\* the pipe is a ring of buffers of one page each
PageSize == 4096
PipeSlots == 16

\* the most bytes the pipe can hold
PipeBytes == PipeSlots * PageSize

\* the pipe is the sequence of its buffers, oldest first: of each the bytes
\* not read yet (len) and where in its page they end (end)

\* the bytes in the pipe
RECURSIVE Held(_)
Held(pipe) == IF Len(pipe) = 0 THEN 0 ELSE Head(pipe).len + Held(Tail(pipe))

\* what a write call puts into the newest buffer when it is entered: the part
\* of its bytes beyond whole pages, if the page has room for all of it
Merged(call, pipe) ==
    LET chars == call.bytes % PageSize IN
    IF /\ call.left = call.bytes
       /\ chars > 0
       /\ Len(pipe) > 0
       /\ pipe[Len(pipe)].end + chars <= PageSize
    THEN chars
    ELSE 0

\* n bytes in new buffers, a page each, as far as `slots` free slots go
RECURSIVE Pages(_, _)
Pages(n, slots) ==
    IF n = 0 \/ slots = 0 THEN <<>>
    ELSE LET k == IF n < PageSize THEN n ELSE PageSize
         IN <<[len |-> k, end |-> k]>> \o Pages(n - k, slots - 1)

\* the pipe after the write call has put into it what it can without waiting
PipeWrite(call, pipe) ==
    LET mg == Merged(call, pipe)
        merged == IF mg = 0 THEN pipe
                  ELSE [pipe EXCEPT ![Len(pipe)] = [len |-> @.len + mg, end |-> @.end + mg]]
    IN merged \o Pages(call.left - mg, PipeSlots - Len(pipe))

\* the pipe after a read of n bytes: a buffer read to its end leaves the ring
RECURSIVE PipeRead(_, _)
PipeRead(pipe, n) ==
    IF n = 0 \/ Len(pipe) = 0 THEN pipe
    ELSE IF Head(pipe).len <= n THEN PipeRead(Tail(pipe), n - Head(pipe).len)
    ELSE <<[Head(pipe) EXCEPT !.len = @ - n]>> \o Tail(pipe)

\* the sizes of the buffers the inspector reads into
ReadBufs == {PageSize, PipeBytes}

----------------------------------------------------------------------------
(* run_inspection, with the inspector as a second process *)

\* Command::new("./inspector.exe").stdin(Stdio::piped()).spawn() succeeded:
\* the child runs, its stdin is an empty pipe whose write end the session
\* holds, and write_inspection has all its write calls before it
Spawned(c) ==
    [toWrite |-> WriteCalls(c), pipe |-> <<>>, received |-> 0, stdinOpen |-> TRUE,
     readOpen |-> TRUE, child |-> "running", sawEof |-> FALSE]

\* the inspect command is read and the child is spawned, or spawn fails and
\* expect("inspect bad") panics
InspectSpawn ==
    \E cmd \in Offered :
        /\ pc = "running"
        /\ cmd.kind = "Inspect"
        /\ lastCmd' = cmd
        /\ lastOut' = <<>>
        /\ \/ /\ pc' = "aborted"
              /\ insp' = insp
           \/ /\ pc' = "writing"
              /\ insp' = Spawned(Cfg)
        /\ stdin' = Consumed
        /\ UNCHANGED <<ledger, declares, probe>>

\* (mutant) a write never blocks: the pipe takes any number of bytes
InspectWriteUnbounded ==
    /\ pc = "writing"
    /\ Len(insp.toWrite) > 0
    /\ pc' = pc
    /\ insp' = [insp EXCEPT !.pipe = Append(@, [len |-> Head(insp.toWrite).left,
                                                end |-> Head(insp.toWrite).left]),
                            !.toWrite = Tail(@)]
    /\ UNCHANGED <<ledger, lastCmd, lastOut, declares, probe, stdin>>

\* the session in the write call at the head of toWrite.  The call fails once
\* the read end of the pipe is closed (broken pipe, SIGPIPE being ignored),
\* whether the inspector has exited or still runs, and the error reaches
\* expect("inspect bad").  Otherwise the call puts into the pipe what the
\* pipe takes, and stays blocked with the rest: a call of up to a page goes
\* in whole or not at all.  The call blocks while the pipe takes nothing.
InspectWrite ==
    /\ pc = "writing"
    /\ Len(insp.toWrite) > 0
    /\ LET call == Head(insp.toWrite)
           after == PipeWrite(call, insp.pipe)
           m == Held(after) - Held(insp.pipe)
       IN IF ~insp.readOpen
          THEN /\ pc' = "aborted"
               /\ insp' = insp
          ELSE /\ m > 0
               /\ pc' = pc
               /\ insp' = [insp EXCEPT
                              !.pipe = after,
                              !.toWrite = IF m = call.left THEN Tail(@)
                                          ELSE <<[call EXCEPT !.left = @ - m]>> \o Tail(@)]
    /\ UNCHANGED <<ledger, lastCmd, lastOut, declares, probe, stdin>>

\* the end of the if-let block: write_inspection has returned Ok and stdin
\* is dropped, which closes the write end of the pipe; child.wait() is next
InspectClose ==
    /\ pc = "writing"
    /\ Len(insp.toWrite) = 0
    /\ pc' = "waiting"
    /\ insp' = [insp EXCEPT !.stdinOpen = FALSE]
    /\ UNCHANGED <<ledger, lastCmd, lastOut, declares, probe, stdin>>

\* child.wait() returns once the child has exited; "ok, let's continue" is
\* printed and main reads the next line, or the println! fails and panics
InspectWait ==
    /\ pc = "waiting"
    /\ insp.child = "exited"
    /\ \E p \in PrintOutcomes(<<Diag("ok, let's continue", -1)>>) :
          /\ lastOut' = p.printed
          /\ pc' = IF p.ok THEN "running" ELSE "aborted"
    /\ insp' = NoInspector
    /\ UNCHANGED <<ledger, lastCmd, declares, probe, stdin>>

\* the inspector's read would return end of input: nothing is in the pipe and
\* its write end is closed
AtEof == insp.readOpen /\ Len(insp.pipe) = 0 /\ ~insp.stdinOpen

\* the inspector reads from the pipe into one of its buffers
InspectorRead ==
    \E buf \in ReadBufs :
        LET n == IF Held(insp.pipe) < buf THEN Held(insp.pipe) ELSE buf IN
        /\ pc \in {"writing", "waiting"}
        /\ insp.child = "running"
        /\ insp.readOpen
        /\ n > 0
        /\ insp' = [insp EXCEPT !.received = @ + n, !.pipe = PipeRead(@, n)]
        /\ UNCHANGED <<ledger, pc, lastCmd, lastOut, declares, probe, stdin>>

\* the inspector closes its standard input and runs on, at the end of its
\* input or before it; what it has not read is lost
InspectorClose ==
    /\ pc \in {"writing", "waiting"}
    /\ insp.child = "running"
    /\ insp.readOpen
    /\ insp' = [insp EXCEPT !.readOpen = FALSE, !.pipe = <<>>, !.sawEof = AtEof]
    /\ UNCHANGED <<ledger, pc, lastCmd, lastOut, declares, probe, stdin>>

\* the inspector exits, which closes its standard input if it was open
InspectorExit ==
    /\ pc \in {"writing", "waiting"}
    /\ insp.child = "running"
    /\ insp' = [insp EXCEPT !.child = "exited", !.readOpen = FALSE, !.pipe = <<>>,
                            !.sawEof = @ \/ AtEof]
    /\ UNCHANGED <<ledger, pc, lastCmd, lastOut, declares, probe, stdin>>

\* the steps of the session
SessionStep ==
    \/ Say
    \/ Agree
    \/ Enact
    \/ Now
    \/ Dump
    \/ Show
    \/ Quit
    \/ Malformed
    \/ Eof
    \/ ReadError
    \/ InspectSpawn
    \/ InspectWrite
    \/ InspectClose
    \/ InspectWait

\* the steps of the inspector
InspectorStep ==
    \/ InspectorRead
    \/ InspectorClose
    \/ InspectorExit

Next ==
    \/ Say
    \/ Agree
    \/ Enact
    \/ Now
    \/ Dump
    \/ Show
    \/ Quit
    \/ Malformed
    \/ Eof
    \/ ReadError
    \/ InspectSpawn
    \/ InspectWrite
    \/ InspectClose
    \/ InspectWait
    \/ InspectorRead
    \/ InspectorClose
    \/ InspectorExit

Spec == Init /\ [][Next]_vars

\* the session is a running process, so a step of run_inspection that can be
\* taken is taken; the inspector reads while there is something to read and
\* its input is open, and one that has come to the end of its input exits
SpecFair ==
    /\ Init
    /\ [][Next]_vars
    /\ WF_vars(InspectWrite)
    /\ WF_vars(InspectClose)
    /\ WF_vars(InspectWait)
    /\ WF_vars(InspectorRead)
    /\ WF_vars(InspectorExit /\ (AtEof \/ insp.sawEof))

----------------------------------------------------------------------------
(* Sessions whose stream is longer than the pipe *)

\* s, n times
RECURSIVE Repeat(_, _)
Repeat(s, n) ==
    IF n = 0 THEN ""
    ELSE IF n % 2 = 1 THEN s \o Repeat(s, n - 1)
    ELSE LET half == Repeat(s, n \div 2) IN half \o half

\* the payload length with which the stream of the clock and one statement
\* of bob fills the pipe exactly, but for the last newline
FillLen == PipeBytes - (StreamBytes(UpdateSay(EmptyCfg, "bob", <<"">>)) - 1)

FillPayload == Repeat("x", FillLen)

\* one character less: the stream leaves the last byte of the pipe free
ShortFillPayload == SubSeq(FillPayload, 1, FillLen - 1)

\* standard inputs read line by line to their end: the statement and an
\* inspect; the same with the shorter payload; and a session that puts the
\* payload into each log before it inspects, and sets the clock after it
PipeScripts ==
    { << Parse(<<"say", "bob", FillPayload>>), Parse(<<"inspect">>), Parse(<<"quit">>) >>,
      << Parse(<<"say", "bob", ShortFillPayload>>), Parse(<<"inspect">>) >>,
      << Parse(<<"say", "bob", FillPayload>>), Parse(<<"agree", "0", "0">>),
         Parse(<<"enact", "carol", "0", "0">>), Parse(<<"show">>), Parse(<<"dump">>),
         Parse(<<"help">>), Parse(<<"inspect">>), Parse(<<"now", "10">>) >> }

InitPipe ==
    /\ current = 0
    /\ statements = <<>>
    /\ agreements = <<>>
    /\ enacted = <<>>
    /\ pc = "running"
    /\ lastCmd = NoCmd
    /\ lastOut = <<>>
    /\ declares = 0
    /\ probe = NoProbe
    /\ insp = NoInspector
    /\ \E script \in PipeScripts : stdin = [any |-> FALSE, rest |-> script]

SpecPipe == InitPipe /\ [][Next]_vars

----------------------------------------------------------------------------
(* Properties *)

IsPrefix(s, t) == Len(s) <= Len(t) /\ SubSeq(t, 1, Len(s)) = s

Last(s) == s[Len(s)]

\* the step ran the handler of an agree / enact command
AgreeStep == lastCmd'.kind = "Agree" /\ pc = "running"
EnactStep == lastCmd'.kind = "Enact" /\ pc = "running"

UnknownStatementOut == <<Diag("Limitation: cannot agree on unsaid messages!", -1)>>
BasisUnknownOut(b) == <<Diag("Cannot be based using unsaid message", b)>>
JustificationUnknownOut(j) == <<Diag("Cannot justify using unsaid message", j)>>

\* the step printed the diagnostic and the session goes on, or stdout failed:
\* then nothing was printed and the session is aborted
PrintedOrFailed(diag) ==
    \/ pc' = pc /\ lastOut' = diag
    \/ pc' = "aborted" /\ lastOut' = <<>>

\* C1: the ledger is referentially closed.  Every agreement's message is the
\* statement stored at the index its id records, every action's basis is an
\* entry of the agreement registry, and every member of every action's
\* justification is an entry of the statement store.
RefClosed ==
    /\ \A i \in 1..Len(agreements) :
          LET m == agreements[i].message IN
          /\ m.id[2] >= 0
          /\ m.id[2] < Len(statements)
          /\ statements[m.id[2] + 1] = m
    /\ \A k \in 1..Len(enacted) :
          /\ \E i \in 1..Len(agreements) : agreements[i] = enacted[k].basis
          /\ \A s \in enacted[k].justification :
                \E j \in 1..Len(statements) : statements[j] = s

\* an action that cites two statements on an agreement made at another time
\* than the clock's, in a store that has grown past the cited agreement
RefClosedWitness ==
    /\ Len(enacted) >= 1
    /\ Cardinality(enacted[1].justification) = 2
    /\ enacted[1].basis.at # current
    /\ enacted[1].basis.message.id[2] = 1

\* C2: bind(i, t) with i >= len(statements) is rejected and changes nothing:
\* the agreement registry, the statement store, the action log and the clock
\* are the same after the step as before it; what the step prints, if stdout
\* takes it, is the diagnostic of an unknown statement.
BindUnknownRejected ==
    [][(AgreeStep /\ lastCmd'.idx >= Len(statements))
          => /\ UNCHANGED <<agreements, statements, enacted, current>>
             /\ PrintedOrFailed(UnknownStatementOut)]_vars

\* a bind on an index one past the end, rejected in a state that holds agreements
BindUnknownWitness ==
    /\ lastCmd.kind = "Agree"
    /\ lastCmd.idx >= Len(statements)
    /\ lastOut = UnknownStatementOut
    /\ Len(statements) >= 1
    /\ Len(agreements) >= 1

\* C3: enact(a, b, J) with b >= len(agreements) is rejected as BasisUnknown(b)
\* and changes no store and not the clock, also when J holds indices
\* >= len(statements): the basis check comes first.
EnactBasisUnknownRejected ==
    [][(EnactStep /\ lastCmd'.idx >= Len(agreements))
          => /\ UNCHANGED <<agreements, statements, enacted, current>>
             /\ PrintedOrFailed(BasisUnknownOut(lastCmd'.idx))]_vars

\* an enact whose basis and justification are both unknown, reported as
\* an unknown basis
EnactBasisUnknownWitness ==
    /\ lastCmd.kind = "Enact"
    /\ lastCmd.idx >= Len(agreements)
    /\ \E j \in lastCmd.just : j >= Len(statements)
    /\ lastOut = BasisUnknownOut(lastCmd.idx)
    /\ Len(agreements) >= 1

\* C4: enact(a, b, J) with b < len(agreements) and some j in J with
\* j >= len(statements) is rejected and changes no store and not the clock,
\* and the index it reports is a member of J that is >= len(statements).
EnactJustificationUnknownRejected ==
    [][(EnactStep /\ lastCmd'.idx < Len(agreements)
          /\ \E j \in lastCmd'.just : j >= Len(statements))
          => /\ UNCHANGED <<agreements, statements, enacted, current>>
             /\ \E j \in lastCmd'.just :
                   /\ j >= Len(statements)
                   /\ PrintedOrFailed(JustificationUnknownOut(j))]_vars

\* an enact on a known basis that cites a known and an unknown statement
EnactJustificationUnknownWitness ==
    /\ lastCmd.kind = "Enact"
    /\ lastCmd.idx < Len(agreements)
    /\ \E j \in lastCmd.just : j < Len(statements)
    /\ \E j \in lastCmd.just : j >= Len(statements) /\ lastOut = JustificationUnknownOut(j)

\* C5: the index reported in JustificationUnknown is a function of the ledger
\* state and of J: the same enact executed twice on the same state reports
\* the same index.  (A rejected enact leaves the state as it was, so the
\* same command read again runs on the same state; both reports reached
\* stdout.)
JustificationReportDeterministic ==
    [][(EnactStep /\ lastCmd' = lastCmd
          /\ pc' = "running"
          /\ lastCmd'.idx < Len(agreements)
          /\ \E j \in lastCmd'.just : j >= Len(statements))
          => lastOut' = lastOut]_vars

\* C6 (as claimed): every action in the action log has a non-empty
\* justification set.
JustificationsNonEmpty ==
    \A k \in 1..Len(enacted) : enacted[k].justification # {}

\* C6 (amended): an action's justification is empty exactly when the enact that
\* created it cited no statement; an enact with a known basis and an empty
\* justification set is not rejected and, its label being a valid character,
\* appends an action whose justification is empty.
EnactEmptyJustificationAccepted ==
    [][EnactStep =>
          /\ Len(enacted') > Len(enacted)
                => (Last(enacted').justification = {} <=> lastCmd'.just = {})
          /\ (lastCmd'.idx < Len(agreements) /\ lastCmd'.just = {})
                => /\ lastOut' = <<>>
                   /\ Label(Cfg) # -1
                         => /\ Len(enacted') = Len(enacted) + 1
                            /\ Last(enacted').justification = {}]_vars

\* an enact without statement indices was the last command and its action,
\* with an empty justification, is the last entry of the log
EnactEmptyJustificationWitness ==
    /\ lastCmd.kind = "Enact"
    /\ lastCmd.just = {}
    /\ lastOut = <<>>
    /\ Len(enacted) >= 1
    /\ Last(enacted).justification = {}
    /\ Len(statements) >= 2

\* C7: the three logs are append-only and immutable: in every step each log
\* before the step is a prefix of the log after it.
AppendOnly ==
    [][/\ IsPrefix(statements, statements')
       /\ IsPrefix(agreements, agreements')
       /\ IsPrefix(enacted, enacted')]_vars

\* all three logs hold entries and the last command added a second one to a log
AppendOnlyWitness ==
    /\ Len(statements) >= 1
    /\ Len(agreements) >= 1
    /\ Len(enacted) >= 1
    /\ \/ lastCmd.kind = "Say" /\ Len(statements) >= 2
       \/ lastCmd.kind = "Agree" /\ lastOut = <<>> /\ Len(agreements) >= 2
       \/ lastCmd.kind = "Enact" /\ lastOut = <<>> /\ Len(enacted) >= 2

\* C8: declare(author, payload) always succeeds and appends exactly one
\* statement whose id is (author, len(statements) before the call), leaving
\* agreements, actions and the clock as they were; so len(statements) is the
\* number of declare calls and the statement at position i carries index i.
DeclareAppends ==
    /\ [][(lastCmd'.kind = "Say" /\ pc = "running")
            => /\ statements' = Append(statements,
                      [id |-> <<lastCmd'.who, Len(statements)>>,
                       payload |-> lastCmd'.payload])
               /\ lastOut' = <<>>
               /\ UNCHANGED <<agreements, enacted, current, pc>>]_vars
    /\ [](/\ Len(statements) = declares
          /\ \A i \in 1..Len(statements) : statements[i].id[2] = i - 1)

\* a declare by another author was the last command, after agreements and
\* actions were made
DeclareWitness ==
    /\ lastCmd.kind = "Say"
    /\ declares >= 2
    /\ Last(statements).id = <<lastCmd.who, Len(statements) - 1>>
    /\ statements[1].id[1] # lastCmd.who
    /\ Len(agreements) >= 1
    /\ Len(enacted) >= 1

\* C9: bind(i, t) with i < len(statements) always succeeds, whatever t and the
\* clock are: it appends exactly the agreement {at: t, message: statements[i]}
\* and leaves the statement store, the action log and the clock as they were;
\* binding the same statement again appends a further agreement.
BindAppends ==
    [][(AgreeStep /\ lastCmd'.idx < Len(statements))
          => /\ agreements' = Append(agreements,
                    [at |-> lastCmd'.at, message |-> statements[lastCmd'.idx + 1]])
             /\ lastOut' = <<>>
             /\ UNCHANGED <<statements, enacted, current, pc>>]_vars

\* the same statement was bound twice at the same time, which is later than
\* the clock
BindWitness ==
    /\ lastCmd.kind = "Agree"
    /\ lastOut = <<>>
    /\ Len(agreements) >= 2
    /\ agreements[Len(agreements) - 1] = Last(agreements)
    /\ Last(agreements).at = lastCmd.at
    /\ lastCmd.at > current

\* C10, on the ledgers of fewer than MaxLedger entries:
\* enact(actor, b, J) with b < len(agreements) and every j in J
\* < len(statements) appends exactly one action, whose actor is the given one,
\* whose basis is agreements[b] and whose justification is
\* {statements[j] : j in J}, and leaves the statement store, the agreement
\* registry and the clock as they were.
EnactAppends ==
    [][(EnactStep /\ lastCmd'.idx < Len(agreements)
          /\ \A j \in lastCmd'.just : j < Len(statements))
          => /\ Len(enacted') = Len(enacted) + 1
             /\ SubSeq(enacted', 1, Len(enacted)) = enacted
             /\ Last(enacted').id[1] = lastCmd'.who
             /\ Last(enacted').basis = agreements[lastCmd'.idx + 1]
             /\ Last(enacted').justification
                   = {statements[j + 1] : j \in lastCmd'.just}
             /\ UNCHANGED <<statements, agreements, current, pc>>]_vars

\* an enact citing both statements, on an agreement about the second one,
\* was the last command and its action is the last entry of the log
EnactWitness ==
    /\ lastCmd.kind = "Enact"
    /\ lastCmd.idx = 0
    /\ lastCmd.just = {0, 1}
    /\ lastOut = <<>>
    /\ Len(enacted) >= 1
    /\ Last(enacted).id[1] = lastCmd.who
    /\ Last(enacted).basis = agreements[1]
    /\ agreements[1].message = statements[2]
    /\ Last(enacted).justification = {statements[1], statements[2]}

\* the probed enact cites a known basis and known statements only
ProbeValid ==
    /\ probe.cmd.idx < Len(BaseCfg.agreements)
    /\ \A j \in probe.cmd.just : j < Len(BaseCfg.statements)

\* the probed enact appended exactly the action the command describes and
\* left everything else as it was
ProbeAppended ==
    /\ probe.len = probe.n + 1
    /\ probe.kept
    /\ Len(probe.pushed) = 1
    /\ probe.pushed[1].id[1] = probe.cmd.who
    /\ probe.pushed[1].basis = BaseCfg.agreements[probe.cmd.idx + 1]
    /\ probe.pushed[1].justification
          = {BaseCfg.statements[j + 1] : j \in probe.cmd.just}
    /\ probe.statements = BaseCfg.statements
    /\ probe.agreements = BaseCfg.agreements
    /\ probe.current = BaseCfg.current

\* C10 (as claimed): enact(actor, b, J) with b < len(agreements) and every j
\* in J < len(statements) appends exactly one action with the given actor,
\* the basis agreements[b] and the justification {statements[j] : j in J},
\* and leaves the statement store, the agreement registry and the clock
\* unchanged, whatever the length of the action log is.
EnactAppendsAlways ==
    (probe # NoProbe /\ ProbeValid) => ProbeAppended

\* C10 (amended): such an enact appends exactly that one action and leaves
\* statements, agreements and the clock unchanged provided 'a' + len(actions)
\* is a valid character, that is while len(actions) < 55199; at
\* len(actions) = 55199 nothing is appended.
EnactAppendsWhileLabelled ==
    (probe # NoProbe /\ ProbeValid)
        => IF probe.n < FirstBadLen
           THEN ProbeAppended
           ELSE probe.len = probe.n /\ probe.kept /\ probe.pushed = <<>>

\* an enact citing both statements was run on the longest log that still
\* has a label left, and its action is the 55199th entry
EnactLongWitness ==
    /\ probe # NoProbe
    /\ probe.n = FirstBadLen - 1
    /\ probe.cmd.idx = 1
    /\ probe.cmd.just = {0, 1}
    /\ probe.len = FirstBadLen
    /\ probe.pushed[1].id = <<probe.cmd.who, SurrogateLo - 1>>
    /\ probe.pushed[1].justification
          = {BaseCfg.statements[1], BaseCfg.statements[2]}

\* C11: sequence labels start at 'a', grow by one per action in insertion
\* order and are pairwise distinct: the action at position k (from 0) carries
\* 'a' + k.  A rejected enact consumes no label, and an enact that repeats an
\* earlier (actor, basis, justification) gets a new entry with a new label.
LabelsDense ==
    /\ [](\A k \in 1..Len(enacted) :
             /\ enacted[k].id[2] = LabelBase + (k - 1)
             /\ \A j \in 1..Len(enacted) : j # k => enacted[j].id[2] # enacted[k].id[2])
    /\ [][EnactStep =>
            IF lastOut' = <<>> /\ pc' = "running"
            THEN /\ Len(enacted') = Len(enacted) + 1
                 /\ Last(enacted').id[2] = LabelBase + Len(enacted)
            ELSE enacted' = enacted]_vars

\* the same enact was accepted twice, with a rejected enact as the last command:
\* two entries that differ in the label only, 'a' and 'b'
LabelsDenseWitness ==
    /\ Len(enacted) = 2
    /\ enacted[1].id[1] = enacted[2].id[1]
    /\ enacted[1].basis = enacted[2].basis
    /\ enacted[1].justification = enacted[2].justification
    /\ enacted[1].id[2] = LabelBase
    /\ enacted[2].id[2] = LabelBase + 1
    /\ lastCmd.kind = "Enact"
    /\ lastOut # <<>>

\* the events a dump must have written for the ledger as it is
IsSerialization(out) ==
    /\ Len(out) = 1 + Len(statements) + Len(agreements) + Len(enacted)
    /\ out[1] = [ev |-> "AdvanceTime", timestamp |-> current]
    /\ \A i \in 1..Len(statements) :
          out[1 + i] = [ev |-> "StateMessage", who |-> statements[i].id[1],
                        to |-> "All", msg |-> statements[i]]
    /\ \A i \in 1..Len(agreements) :
          out[1 + Len(statements) + i] = [ev |-> "AddAgreement", agree |-> agreements[i]]
    /\ \A i \in 1..Len(enacted) :
          out[1 + Len(statements) + Len(agreements) + i]
             = [ev |-> "EnactAction", who |-> enacted[i].id[1],
                to |-> "All", action |-> enacted[i]]

\* C12: serialize() emits exactly 1 + len(statements) + len(agreements) +
\* len(actions) events: one AdvanceTime with the clock, then one StateMessage
\* per statement, one AddAgreement per agreement and one EnactAction per
\* action, each group in insertion order, whatever the order of the commands
\* that built the ledger.
SerializeOrdered ==
    (lastCmd.kind = "Dump" /\ pc = "running") => IsSerialization(lastOut)

\* a dump of a ledger with two statements, an agreement on the second one
\* and an action: five events
SerializeWitness ==
    /\ lastCmd.kind = "Dump"
    /\ pc = "running"
    /\ Len(lastOut) = 5
    /\ Len(statements) = 2
    /\ Len(agreements) = 1
    /\ agreements[1].message = statements[2]
    /\ Len(enacted) = 1
    /\ current = 10

\* C13: serialize() is a pure re-derivation: it leaves the clock and the three
\* logs as they were and its output is determined by the state it runs on, so
\* a second call with no mutation in between writes the same events, whatever
\* was dumped or rejected before.
SerializePure ==
    [][(lastCmd'.kind = "Dump" /\ pc = "running")
          => /\ UNCHANGED ledger
             /\ pc' = "running" => /\ IsSerialization(lastOut)'
                                   /\ lastCmd.kind = "Dump" => lastOut' = lastOut]_vars

\* a dump of a ledger that holds entries in the three logs
SerializePureWitness ==
    /\ lastCmd.kind = "Dump"
    /\ pc = "running"
    /\ lastOut # <<>>
    /\ Len(statements) >= 1
    /\ Len(agreements) >= 2
    /\ Len(enacted) >= 1

\* C14: set(t) makes the clock t, for any t and any clock value, and changes
\* nothing else; no other command changes the clock.  (So the clock is the
\* argument of the latest set, 0 if there was none.)
ClockSetOnly ==
    [][IF lastCmd'.kind = "Now" /\ pc = "running"
       THEN current' = lastCmd'.at /\ UNCHANGED <<statements, agreements, enacted, pc>>
       ELSE current' = current]_vars

\* the clock was set to 0 after an agreement was made for time 10
ClockWitness ==
    /\ lastCmd.kind = "Now"
    /\ lastCmd.at = 0
    /\ current = 0
    /\ \E i \in 1..Len(agreements) : agreements[i].at > current

\* C15: the session terminates abnormally only by an enact that overflows the
\* label range: whenever the session has aborted, the last command was an
\* enact whose label 'a' + len(actions) is no character.
AbortOnlyOnOverflow ==
    pc = "aborted" => (lastCmd.kind = "Enact" /\ Label(Cfg) = -1)

\* C16: every rejected bind and every rejected enact prints a diagnostic that
\* names the offending index, and the three diagnostics differ from each other.
\* (Stated of the diagnostics that reached stdout.)
DiagnosticsNameIndex ==
    /\ (pc = "running" /\ lastCmd.kind = "Agree" /\ lastCmd.idx >= Len(statements))
          => /\ Len(lastOut) = 1
             /\ lastOut[1].arg = lastCmd.idx
    /\ (pc = "running" /\ lastCmd.kind = "Enact" /\ lastCmd.idx >= Len(agreements))
          => /\ Len(lastOut) = 1
             /\ lastOut[1].arg = lastCmd.idx
    /\ (pc = "running" /\ lastCmd.kind = "Enact" /\ lastCmd.idx < Len(agreements)
          /\ \E j \in lastCmd.just : j >= Len(statements))
          => /\ Len(lastOut) = 1
             /\ lastOut[1].arg \in {j \in lastCmd.just : j >= Len(statements)}
    /\ UnknownStatementOut[1].text # BasisUnknownOut(0)[1].text
    /\ UnknownStatementOut[1].text # JustificationUnknownOut(0)[1].text
    /\ BasisUnknownOut(0)[1].text # JustificationUnknownOut(0)[1].text

\* the step read a command that is rejected: an unparsable line, a bind on an
\* unknown statement, an enact on an unknown basis or justification
RejectedStep ==
    /\ pc = "running"
    /\ \/ lastCmd'.kind = "None"
       \/ lastCmd'.kind = "Agree" /\ lastCmd'.idx >= Len(statements)
       \/ lastCmd'.kind = "Enact" /\ lastCmd'.idx >= Len(agreements)
       \/ lastCmd'.kind = "Enact" /\ \E j \in lastCmd'.just : j >= Len(statements)

\* C17: after a rejected bind, a rejected enact or a malformed command the
\* ledger is as it was and the session is still in its loop, where the next
\* command is read and processed; the loop is left only by quit or end of input.
RejectedContinues ==
    /\ [][RejectedStep => /\ UNCHANGED ledger
                          /\ pc' = "running"
                          /\ lastOut' # <<>>
                          /\ (ENABLED Now)'
                          /\ (ENABLED Malformed)']_vars
    /\ [](pc = "quit" => lastCmd.kind \in {"Quit", "Eof"})

\* C18: an otherwise valid enact appends an action whenever 'a' + len(actions)
\* is a Unicode scalar value and aborts the session without appending when it
\* is not, which first happens at len(actions) = 55199 ('a' + 55199 = 0xD800);
\* an enact with an unknown basis or justification is rejected in that state
\* as in any other, the label playing no part since the indices are checked
\* first: its diagnostic is printed and the session is not aborted (unless
\* stdout fails, as for a rejection in any state).
LabelOverflowAborts ==
    /\ \A n \in 0..(FirstBadLen - 1) : FromU32(LabelBase + n) = LabelBase + n
    /\ FromU32(LabelBase + FirstBadLen) = -1
    /\ LabelBase + FirstBadLen = 55296
    /\ probe # NoProbe =>
          IF ProbeValid
          THEN IF probe.n < FirstBadLen
               THEN /\ ~probe.aborted
                    /\ probe.len = probe.n + 1
                    /\ probe.kept
                    /\ probe.pushed[1].id[2] = LabelBase + probe.n
                    /\ probe.out = <<>>
               ELSE /\ probe.aborted
                    /\ probe.len = probe.n
                    /\ probe.kept
          ELSE /\ probe.aborted <=> ~probe.printed
               /\ probe.len = probe.n
               /\ probe.kept
               /\ IF probe.printed
                  THEN \/ probe.out = BasisUnknownOut(probe.cmd.idx)
                       \/ \E j \in probe.cmd.just :
                             /\ j >= Len(BaseCfg.statements)
                             /\ probe.out = JustificationUnknownOut(j)
                  ELSE probe.out = <<>>

\* on the log of 55199 actions a valid enact has aborted the session
LabelOverflowWitness ==
    /\ probe # NoProbe
    /\ probe.n = FirstBadLen
    /\ ProbeValid
    /\ probe.cmd.just = {0, 1}
    /\ probe.aborted
    /\ probe.len = FirstBadLen

\* on the log of 55199 actions an enact citing an unknown statement has been
\* rejected with its diagnostic
LabelOverflowRejectWitness ==
    /\ probe # NoProbe
    /\ probe.n = FirstBadLen
    /\ probe.cmd.idx < Len(BaseCfg.agreements)
    /\ ~ProbeValid
    /\ ~probe.aborted
    /\ probe.out # <<>>

\* run_inspection is under way: the child is spawned and wait has not returned
Inspecting == pc \in {"writing", "waiting"}

\* the write calls left are the last ones of write_inspection's, the first
\* of them possibly with part of its bytes written
WritesInOrder ==
    LET all == WriteCalls(Cfg)
        k == Len(all) - Len(insp.toWrite)
    IN /\ k >= 0
       /\ \A i \in 1..Len(insp.toWrite) :
             /\ insp.toWrite[i].event = all[k + i].event
             /\ insp.toWrite[i].part = all[k + i].part
             /\ insp.toWrite[i].bytes = all[k + i].bytes
             /\ insp.toWrite[i].left \in 1..all[k + i].bytes
             /\ i > 1 => insp.toWrite[i].left = all[k + i].bytes

\* the hand-off: the session writes the serialization to the inspector's
\* input, in order, and waits for the inspector's exit only after the last
\* byte; from the start of inspect to the inspector's exit it reads no
\* command and changes no ledger entry
HandOff ==
    /\ [](Inspecting =>
            /\ lastCmd.kind = "Inspect"
            /\ WritesInOrder
            /\ Len(insp.pipe) <= PipeSlots
            /\ Held(insp.pipe) <= PipeBytes
            /\ insp.received + Held(insp.pipe) + Bytes(insp.toWrite) <= StreamBytes(Cfg)
            /\ (insp.readOpen =>
                  insp.received + Held(insp.pipe) + Bytes(insp.toWrite) = StreamBytes(Cfg))
            /\ (pc = "waiting" => (Len(insp.toWrite) = 0 /\ ~insp.stdinOpen)))
    /\ [][Inspecting =>
            /\ UNCHANGED ledger
            /\ lastCmd' = lastCmd
            /\ stdin' = stdin
            /\ (pc' = "running" => (pc = "waiting" /\ insp.child = "exited"))]_vars

\* the session is writing a stream longer than the pipe to an inspector that
\* runs and has read nothing
Undrained ==
    /\ pc = "writing"
    /\ StreamBytes(Cfg) > PipeBytes
    /\ insp.received = 0
    /\ insp.child = "running"

\* C19 (as stated): inspect is a blocking hand-off, and while the stream
\* exceeds the pipe capacity and the inspector neither drains its input nor
\* exits, the session stays in the write.
InspectBlockedUnlessExit ==
    /\ HandOff
    /\ [][(Undrained /\ insp'.received = 0 /\ insp'.child = "running")
            => pc' = "writing"]_vars

\* C19 (amended): inspect is a blocking hand-off, and while the stream
\* exceeds the pipe capacity and the inspector neither drains its input, nor
\* closes it, nor exits, the session stays in the write, with bytes left to
\* write and no more than the capacity in the pipe; likewise for an inspector
\* that stops reading while more than the capacity is still unread.
InspectBlocking ==
    /\ HandOff
    /\ []((Undrained /\ insp.readOpen)
            => /\ Len(insp.toWrite) > 0
               /\ Held(insp.pipe) + Bytes(insp.toWrite) = StreamBytes(Cfg))
    /\ [][(Undrained /\ insp.readOpen
             /\ insp'.received = 0 /\ insp'.child = "running" /\ insp'.readOpen)
            => /\ pc' = "writing"
               /\ Len(insp'.toWrite) > 0]_vars
    /\ [][(pc = "writing" /\ insp.readOpen
             /\ Held(insp.pipe) + Bytes(insp.toWrite) > PipeBytes
             /\ insp'.received = insp.received /\ insp'.readOpen)
            => /\ pc' = "writing"
               /\ Len(insp'.toWrite) > 0]_vars

\* the session is blocked in the write of a stream longer than the pipe, on
\* an inspector that has read nothing and holds its input open: every buffer
\* of the pipe is full of the clock and the text of the statement, whose
\* newline, an agreement and an action are still to be written, and the
\* session can take no step
InspectBlockedWitness ==
    /\ Undrained
    /\ insp.readOpen
    /\ Len(insp.pipe) = PipeSlots
    /\ Held(insp.pipe) = PipeBytes
    /\ Head(insp.toWrite).part = "newline"
    /\ Len(agreements) >= 1
    /\ Len(enacted) >= 1
    /\ ~ENABLED SessionStep

\* the session is blocked in the write of one byte although the pipe holds a
\* byte less than its capacity: every buffer is in use and the newest one is
\* full
InspectBlockedBelowCapacity ==
    /\ pc = "writing"
    /\ insp.received = 0
    /\ insp.readOpen
    /\ Held(insp.pipe) = PipeBytes - 1
    /\ Head(insp.toWrite).left = 1
    /\ ~ENABLED SessionStep

\* the session is blocked in the middle of a long write: part of the text of
\* an event is in the pipe, the rest waits for a free buffer
InspectBlockedMidWrite ==
    /\ pc = "writing"
    /\ insp.readOpen
    /\ Len(insp.toWrite) > 0
    /\ Head(insp.toWrite).part = "text"
    /\ Head(insp.toWrite).left < Head(insp.toWrite).bytes
    /\ insp.received > 0
    /\ ~ENABLED SessionStep

\* the write failed on an inspector that runs on with its input closed and
\* has read nothing
BrokenPipeWhileRunning ==
    /\ pc = "aborted"
    /\ lastCmd.kind = "Inspect"
    /\ insp.child = "running"
    /\ ~insp.readOpen
    /\ insp.received = 0
    /\ StreamBytes(Cfg) > PipeBytes

\* the write of the last newline failed on an inspector that had read the
\* text of every event and exited
BrokenPipeAfterLastText ==
    /\ pc = "aborted"
    /\ lastCmd.kind = "Inspect"
    /\ insp.child = "exited"
    /\ Len(insp.toWrite) = 1
    /\ insp.received = StreamBytes(Cfg) - 1

\* the whole stream is written and the session waits for an inspector that
\* has exited without reading a byte
WrittenUnread ==
    /\ pc = "waiting"
    /\ insp.child = "exited"
    /\ insp.received = 0
    /\ Len(agreements) >= 1

\* the inspector has closed its input, or exited, before the end of its input
Early == insp.child # "none" /\ ~insp.readOpen /\ ~insp.sawEof

\* C20: the session closes its end of the inspector's input after the last
\* byte is written and before it waits for the inspector's exit; so with an
\* inspector that reads to the end of its input and then exits the session
\* never deadlocks and is never aborted, and under fair scheduling it comes
\* back to reading commands, with the ledger as it was.
InspectDrainResumes ==
    /\ [][(pc' = "waiting" /\ pc # "waiting")
            => /\ pc = "writing"
               /\ Len(insp.toWrite) = 0
               /\ insp.stdinOpen
               /\ ~insp'.stdinOpen]_vars
    /\ [](pc = "waiting" => ~insp.stdinOpen)
    /\ []((Inspecting /\ ~Early) => ENABLED Next)
    /\ [][(Inspecting /\ ~Early)
            => /\ UNCHANGED ledger
               /\ pc' # "aborted"]_vars
    /\ (pc = "writing")
          ~> (Early \/ (pc = "running" /\ lastCmd.kind = "Inspect"
                          /\ lastOut = <<Diag("ok, let's continue", -1)>>))

====
